---- MODULE Spec2Model ----
(***************************************************************************)
(* setup.py of the Leprosy Detection AI application: the bootstrap script  *)
(* that checks the interpreter version and the required packages, creates  *)
(* the directory layout and, when no trained model is present, runs the    *)
(* download / sample-preparation / training scripts.                       *)
(*                                                                         *)
(* Python values are modelled as follows.  None and "no such file" are the *)
(* empty sequence <<>>, a present value v is <<v>>.  A function result is  *)
(* one of the strings "None" (not returned yet), "True", "False" and       *)
(* "raised" (an exception left the function).  The process environment is  *)
(* a function whose domain is the set of variables that are set.           *)
(***************************************************************************)
EXTENDS Integers, Sequences, FiniteSets, TLC

VARIABLES
    pc,               \* the position of the run
    python_version,   \* <<>> or <<major, minor>> as read from sys.version_info
    missing_packages, \* check_dependencies: the list it collected
    installAnswer,    \* check_dependencies: <<>> or <<what the operator typed>>
    depsResult,       \* what check_dependencies returned
    env,              \* os.environ, restricted to the two Kaggle variables
    kaggle_json,      \* ~/.kaggle/kaggle.json: <<>> or <<[username, key, mode]>>
    dirs,             \* the paths that exist as directories
    files,            \* the paths of the layout that exist as regular files
    entries,          \* number of entries of each class folder
    marker,           \* model/leprosy_classifier.pkl exists
    atStart,          \* <<>> or <<what run_data_preparation found when it started>>
    credCall,         \* <<>> or <<record of the last check_kaggle_credentials call>>
    credsResult,      \* what check_kaggle_credentials returned
    setupResult,      \* what setup_directories returned
    prepResult,       \* what run_data_preparation returned
    launched,         \* the external processes launched, in order
    exits,            \* the exit status of each launched process that ended
    prompts,          \* the questions put to the operator, in order
    stages,           \* the functions entered, in order
    exitCode          \* <<>> while running, then <<status>> of the process

vars == <<pc, python_version, missing_packages, installAnswer, depsResult, env,
          kaggle_json, dirs, files, entries, marker, atStart, credCall,
          credsResult, setupResult,
          prepResult, launched, exits, prompts, stages, exitCode>>

(***************************************************************************)
(* Bounds of the model.                                                    *)
(***************************************************************************)
\* a populated folder holds threshold - 1 .. threshold + Slack entries
Slack == 0
\* only the first MaxAbsent packages of the list may fail to import
MaxAbsent == 2
\* setup_directories is called at most this many times when called on its own
MaxCalls == 2

(***************************************************************************)
(* Constants of the program.                                               *)
(***************************************************************************)
MinMajor == 3
MinMinor == 8
MinTrainEntries == 10
MinTestEntries == 5
OwnerReadWrite == 384      \* 0o600
DefaultMode == 420         \* 0o644: what open(.., "w") creates under umask 022

(***************************************************************************)
(* Values.                                                                 *)
(***************************************************************************)
Majors == (MinMajor - 1) .. (MinMajor + 1)
Minors == (MinMinor - 1) .. (MinMinor + 1)

\* what the operator may type at a yes/no prompt
Answers == {"y", "Y", "n", "yes"}
\* what the operator may type as a username and as a key
Usernames == {"", "bob"}
Keys == {"", "k2"}

\* faulty variant: the answer is compared as typed
Lower_none(s) == s

\* str.lower() on the answers
Lower(s) == IF s = "Y" THEN "y" ELSE s

\* Python truthiness of an optional string: None and "" are false
Truthy(opt) == opt # <<>> /\ opt[1] # ""

\* os.environ.get(name)
EnvGet(e, name) == IF name \in DOMAIN e THEN <<e[name]>> ELSE <<>>

\* os.environ[name] = value
EnvSet(e, name, value) ==
    [n \in DOMAIN e \cup {name} |-> IF n = name THEN value ELSE e[n]]

(***************************************************************************)
(* check_python_version                                                    *)
(***************************************************************************)
\* faulty variant: the minor version is compared whatever the major version is
check_python_version_minor_alone(v) ==
    ~ (v[1] < MinMajor \/ v[2] < MinMinor)

check_python_version(v) ==
    ~ (v[1] < MinMajor \/ (v[1] = MinMajor /\ v[2] < MinMinor))

(***************************************************************************)
(* check_dependencies                                                      *)
(***************************************************************************)
required_packages ==
    << "flask", "flask-login", "flask-sqlalchemy", "flask-wtf",
       "matplotlib", "numpy", "opencv-python", "pandas", "scikit-learn",
       "pillow", "werkzeug", "gunicorn" >>

\* package.replace('-', '_')
ModuleName(package) ==
    CASE package = "flask-login" -> "flask_login"
      [] package = "flask-sqlalchemy" -> "flask_sqlalchemy"
      [] package = "flask-wtf" -> "flask_wtf"
      [] package = "opencv-python" -> "opencv_python"
      [] package = "scikit-learn" -> "scikit_learn"
      [] OTHER -> package

AllModules == {ModuleName(required_packages[i]) : i \in 1 .. Len(required_packages)}

\* the sets of modules whose import fails that the model tries
Unimportable ==
    SUBSET {ModuleName(required_packages[i]) :
                i \in {j \in 1 .. Len(required_packages) : j <= MaxAbsent}}

\* the loop of lines 33-40: the packages whose import raises ImportError
CollectMissing(importable) ==
    SelectSeq(required_packages, LAMBDA p : ModuleName(p) \notin importable)

(***************************************************************************)
(* setup_directories                                                       *)
(***************************************************************************)
directories ==
    << "model", "dataset", "dataset/leprosy_dataset",
       "dataset/leprosy_dataset/positive", "dataset/leprosy_dataset/negative",
       "dataset/leprosy_dataset/irrelevant", "test_samples",
       "test_samples/positive", "test_samples/negative", "test_results",
       "static/uploads", "instance" >>

Directories == {directories[i] : i \in 1 .. Len(directories)}

\* os.path.dirname; "" is the working directory, which always exists
Parent(p) ==
    CASE p = "dataset/leprosy_dataset" -> "dataset"
      [] p \in {"dataset/leprosy_dataset/positive",
                "dataset/leprosy_dataset/negative",
                "dataset/leprosy_dataset/irrelevant"} -> "dataset/leprosy_dataset"
      [] p \in {"test_samples/positive", "test_samples/negative"} -> "test_samples"
      [] p = "static/uploads" -> "static"
      [] OTHER -> ""

AllPaths == Directories \cup {"static"}

\* os.mkdir(p) succeeds: p is free and its parent is a directory
CanMkdir(d, f, p) ==
    p \notin d /\ p \notin f /\ (Parent(p) = "" \/ Parent(p) \in d)

\* faulty variant: exist_ok left out
ExistOk_off(d, p) == FALSE

\* exist_ok=True: a failed mkdir is forgiven when p is a directory already
ExistOk(d, p) == p \in d

\* os.makedirs(p, exist_ok=True) on the directories d and regular files f:
\* the directories afterwards, and whether an exception left it
RECURSIVE makedirs(_, _, _)
makedirs(d, f, p) ==
    LET head == Parent(p)
        up == IF head # "" /\ head \notin d /\ head \notin f
              THEN makedirs(d, f, head)
              ELSE [dirs |-> d, raised |-> FALSE]
    IN  IF up.raised THEN up
        ELSE IF CanMkdir(up.dirs, f, p)
             THEN [dirs |-> up.dirs \cup {p}, raised |-> FALSE]
             ELSE [dirs |-> up.dirs, raised |-> ~ ExistOk(up.dirs, p)]

\* the loop of lines 119-121 from position i on
RECURSIVE EnsureFrom(_, _, _)
EnsureFrom(d, f, i) ==
    IF i > Len(directories) THEN [dirs |-> d, raised |-> FALSE]
    ELSE LET r == makedirs(d, f, directories[i])
         IN  IF r.raised THEN r ELSE EnsureFrom(r.dirs, f, i + 1)

setup_directories(d, f) == EnsureFrom(d, f, 1)

(***************************************************************************)
(* check_kaggle_credentials                                                *)
(***************************************************************************)
\* json.dump({"username": username, "key": key}, f) into a newly created file
JsonDump(username, key) ==
    [username |-> username, key |-> key, mode |-> DefaultMode]

\* os.chmod(path, mode)
Chmod(file, mode) == [file EXCEPT !.mode = mode]

\* faulty variant: the chmod is left out
Persist_no_chmod(username, key) == << JsonDump(username, key) >>

\* lines 84-92: write the credential file and restrict it to its owner
Persist(username, key) == << Chmod(JsonDump(username, key), OwnerReadWrite) >>

\* line 64: not kaggle_username or not kaggle_key
CredentialsAbsent(e) ==
    ~ Truthy(EnvGet(e, "KAGGLE_USERNAME")) \/ ~ Truthy(EnvGet(e, "KAGGLE_KEY"))

\* The whole function on the environment e and the credential file kj, with
\* the operator ready to type a.setup, a.username, a.key and a.persist: the
\* environment and the file afterwards, the result, and the answers read.
check_kaggle_credentials(e, kj, a) ==
    IF CredentialsAbsent(e)
    THEN IF kj # <<>>
         THEN [env |-> e, file |-> kj, result |-> "True", answered |-> <<>>]
         ELSE IF Lower(a.setup) = "y"
              THEN LET e2 == EnvSet(EnvSet(e, "KAGGLE_USERNAME", a.username),
                                    "KAGGLE_KEY", a.key)
                   IN  [env |-> e2,
                        file |-> IF Lower(a.persist) = "y"
                                 THEN Persist(a.username, a.key) ELSE kj,
                        result |-> "True",
                        answered |-> <<a.setup, a.username, a.key, a.persist>>]
              ELSE [env |-> e, file |-> kj, result |-> "False",
                    answered |-> <<a.setup>>]
    ELSE [env |-> e, file |-> kj, result |-> "True", answered |-> <<>>]

\* the questions that go with the answers read
PromptsFor(answered) ==
    IF answered = <<>> THEN <<>>
    ELSE IF Len(answered) = 1 THEN <<"setup_creds">>
    ELSE <<"setup_creds", "username", "key", "persist">>

CredentialInputs ==
    [setup : Answers, username : Usernames, key : Keys, persist : Answers]

(***************************************************************************)
(* run_data_preparation: the folder checks                                 *)
(***************************************************************************)
positive_dir == "dataset/leprosy_dataset/positive"
negative_dir == "dataset/leprosy_dataset/negative"
test_pos_dir == "test_samples/positive"
test_neg_dir == "test_samples/negative"

TrainFolders == {positive_dir, negative_dir}
TestFolders == {test_pos_dir, test_neg_dir}
ClassFolders == TrainFolders \cup TestFolders

Threshold(p) == IF p \in TrainFolders THEN MinTrainEntries ELSE MinTestEntries

\* the entry counts the model tries for a folder p that holds something
Counts(p) == (Threshold(p) - 1) .. (Threshold(p) + Slack)

\* faulty variant: <= in place of <
FolderBelow_inclusive(d, f, n, p, least) ==
    IF p \in f THEN "raised"
    ELSE IF p \notin d \/ n[p] <= least THEN "True" ELSE "False"

\* not os.path.exists(p) or len(os.listdir(p)) < least ; os.listdir raises
\* NotADirectoryError on a regular file
FolderBelow(d, f, n, p, least) ==
    IF p \in f THEN "raised"
    ELSE IF p \notin d \/ n[p] < least THEN "True" ELSE "False"

\* the condition of lines 132-133 and of lines 156-157, left to right
Incomplete(d, f, n, first, second, least) ==
    LET a == FolderBelow(d, f, n, first, least)
    IN  IF a # "False" THEN a ELSE FolderBelow(d, f, n, second, least)

DatasetIncomplete(d, f, n) ==
    Incomplete(d, f, n, positive_dir, negative_dir, MinTrainEntries)

\* faulty variant: the training threshold is used for the test samples
SamplesIncomplete_train(d, f, n) ==
    Incomplete(d, f, n, test_pos_dir, test_neg_dir, MinTrainEntries)

SamplesIncomplete(d, f, n) ==
    Incomplete(d, f, n, test_pos_dir, test_neg_dir, MinTestEntries)

\* subprocess.check_call: the exit statuses tried; non-zero raises
ExitStatuses == {0, 1}
CalledProcessError(status) == status # 0

(***************************************************************************)
(* The external scripts.  They add entries to class folders (creating the  *)
(* folders they fill) and never remove any.                                *)
(***************************************************************************)
RECURSIVE Ancestors(_)
Ancestors(p) == IF Parent(p) = "" THEN {} ELSE {Parent(p)} \cup Ancestors(Parent(p))

\* what a script that fills the folders g leaves: each of them exists and
\* holds at least its threshold
ScriptOutcome(d, n, g) ==
    [dirs |-> d \cup g \cup UNION {Ancestors(p) : p \in g},
     entries |-> [p \in ClassFolders |->
                    IF p \in g /\ n[p] < Threshold(p) THEN Threshold(p) ELSE n[p]]]

\* the folder states a script that writes into the folders of `into` can leave
ScriptOutcomes(d, n, into) == {ScriptOutcome(d, n, g) : g \in SUBSET into}

(***************************************************************************)
(* main, lines 182-211: one action per call it makes.                      *)
(***************************************************************************)
\* lines 187-189 and 209-211: the version gate
Main_check_python_version ==
    /\ pc = "main"
    /\ \E major \in Majors, minor \in Minors :
          /\ python_version' = <<major, minor>>
          /\ IF check_python_version(<<major, minor>>)
             THEN pc' = "check_dependencies" /\ exitCode' = exitCode
             ELSE pc' = "exited" /\ exitCode' = <<1>>
    /\ stages' = Append(stages, "check_python_version")
    /\ UNCHANGED <<missing_packages, installAnswer, depsResult, env,
                   kaggle_json, dirs, files, entries, marker, atStart,
                   credCall, credsResult, setupResult, prepResult, launched,
                   exits, prompts>>

\* faulty variant: a failed dependency check skips the directory provisioning
AfterDependencies_skip ==
    IF depsResult' = "False" THEN "run_data_preparation" ELSE "setup_directories"

\* line 195: what main calls once check_dependencies has returned, whatever
\* it returned
AfterDependencies == "setup_directories"

\* lines 191-192 with check_dependencies, lines 25-57
Main_check_dependencies ==
    /\ pc = "check_dependencies"
    /\ \E unimportable \in Unimportable, install \in Answers, status \in ExitStatuses :
          LET missing == CollectMissing(AllModules \ unimportable)
          IN  /\ missing_packages' = missing
              /\ IF missing # <<>>
                 THEN /\ prompts' = Append(prompts, "install")
                      /\ installAnswer' = <<install>>
                      /\ IF Lower(install) = "y"
                         THEN /\ launched' = Append(launched, "pip")
                              /\ exits' = Append(exits, status)
                              /\ depsResult' = IF CalledProcessError(status)
                                               THEN "False" ELSE "True"
                         ELSE /\ depsResult' = "False"
                              /\ UNCHANGED <<launched, exits>>
                 ELSE /\ depsResult' = "True"
                      /\ UNCHANGED <<launched, exits, prompts, installAnswer>>
    /\ pc' = AfterDependencies
    /\ stages' = Append(stages, "check_dependencies")
    /\ UNCHANGED <<python_version, env, kaggle_json, dirs, files, entries,
                   marker, atStart, credCall, credsResult, setupResult,
                   prepResult, exitCode>>

\* lines 195-197 with setup_directories, lines 102-123; an exception of
\* os.makedirs is caught nowhere and ends the process with status 1
Main_setup_directories ==
    /\ pc = "setup_directories"
    /\ LET r == setup_directories(dirs, files)
       IN  /\ dirs' = r.dirs
           /\ IF r.raised
              THEN setupResult' = "raised" /\ pc' = "exited" /\ exitCode' = <<1>>
              ELSE /\ setupResult' = "True"
                   /\ pc' = "run_data_preparation"
                   /\ exitCode' = exitCode
    /\ stages' = Append(stages, "setup_directories")
    /\ UNCHANGED <<python_version, missing_packages, installAnswer,
                   depsResult, env, kaggle_json, files, entries, marker,
                   atStart, credCall, credsResult, prepResult, launched,
                   exits, prompts>>

\* faulty variant: a failed data preparation fails the setup
MainExit_strict(prep) == IF prep # "True" THEN 1 ELSE 0

\* lines 200-211: the exit status once run_data_preparation is over
MainExit(prep) == IF prep = "raised" THEN 1 ELSE 0

\* lines 200-206 and 209-211: whatever run_data_preparation returned, main
\* returns True; an exception that left it ends the process with status 1
Main_finish ==
    /\ pc = "returned"
    /\ pc' = "exited"
    /\ exitCode' = <<MainExit(prepResult)>>
    /\ UNCHANGED <<python_version, missing_packages, installAnswer,
                   depsResult, env, kaggle_json, dirs, files, entries, marker,
                   atStart, credCall, credsResult, setupResult, prepResult,
                   launched, exits, prompts, stages>>

(***************************************************************************)
(* run_data_preparation, lines 125-180: one action per stretch of code     *)
(* between two waits for an external process.                              *)
(***************************************************************************)
\* faulty variant: the marker file is not looked at
NeedsPreparation_always(m) == TRUE

\* line 127: not os.path.exists('model/leprosy_classifier.pkl')
NeedsPreparation(m) == ~ m

\* lines 127-150 up to the call of check_kaggle_credentials
RDP_start ==
    /\ pc = "run_data_preparation"
    /\ stages' = Append(stages, "run_data_preparation")
    /\ atStart' = << [marker |-> marker, dirs |-> dirs, entries |-> entries] >>
    /\ IF ~ NeedsPreparation(marker)
       THEN pc' = "returned" /\ prepResult' = "True"
       ELSE LET c == DatasetIncomplete(dirs, files, entries)
            IN  /\ pc' = CASE c = "raised" -> "returned"
                           [] c = "True" -> "check_kaggle_credentials"
                           [] OTHER -> "test_samples"
                /\ prepResult' = IF c = "raised" THEN "raised" ELSE prepResult
    /\ UNCHANGED <<python_version, missing_packages, installAnswer,
                   depsResult, env, kaggle_json, dirs, files, entries, marker,
                   credCall, credsResult, setupResult, launched, exits,
                   prompts, exitCode>>

\* lines 136-148 with check_kaggle_credentials, lines 59-100: up to the launch
\* of prepare_kaggle_data.py
RDP_credentials ==
    /\ pc = "check_kaggle_credentials"
    /\ stages' = Append(stages, "check_kaggle_credentials")
    /\ \E a \in CredentialInputs :
          LET r == check_kaggle_credentials(env, kaggle_json, a)
          IN  /\ env' = r.env
              /\ kaggle_json' = r.file
              /\ credsResult' = r.result
              /\ prompts' = prompts \o PromptsFor(r.answered)
              /\ IF r.result = "True"
                 THEN /\ launched' = Append(launched, "prepare_kaggle_data.py")
                      /\ pc' = "download"
                      /\ prepResult' = prepResult
                 ELSE /\ launched' = launched
                      /\ pc' = "returned"
                      /\ prepResult' = "False"
    /\ UNCHANGED <<python_version, missing_packages, installAnswer,
                   depsResult, dirs, files, entries, marker, atStart,
                   credCall, setupResult, exits, exitCode>>

\* lines 141-145: prepare_kaggle_data.py ends
RDP_download_exit ==
    /\ pc = "download"
    /\ \E status \in ExitStatuses, o \in ScriptOutcomes(dirs, entries, ClassFolders) :
          /\ exits' = Append(exits, status)
          /\ dirs' = o.dirs
          /\ entries' = o.entries
          /\ IF CalledProcessError(status)
             THEN pc' = "returned" /\ prepResult' = "False"
             ELSE pc' = "test_samples" /\ prepResult' = prepResult
    /\ UNCHANGED <<python_version, missing_packages, installAnswer,
                   depsResult, env, kaggle_json, files, marker, atStart,
                   credCall, credsResult, setupResult, launched, prompts,
                   stages, exitCode>>

\* lines 153-172: the test-sample check, up to the next launch
RDP_test_samples ==
    /\ pc = "test_samples"
    /\ LET c == SamplesIncomplete(dirs, files, entries)
       IN  /\ pc' = CASE c = "raised" -> "returned"
                      [] c = "True" -> "prepare_samples"
                      [] OTHER -> "train"
           /\ prepResult' = IF c = "raised" THEN "raised" ELSE prepResult
           /\ launched' = CASE c = "raised" -> launched
                            [] c = "True" -> Append(launched, "prepare_test_samples.py")
                            [] OTHER -> Append(launched, "retrain_model.py")
    /\ UNCHANGED <<python_version, missing_packages, installAnswer,
                   depsResult, env, kaggle_json, dirs, files, entries, marker,
                   atStart, credCall, credsResult, setupResult, exits,
                   prompts, stages, exitCode>>

\* lines 161-172: prepare_test_samples.py ends; on success training is launched
RDP_samples_exit ==
    /\ pc = "prepare_samples"
    /\ \E status \in ExitStatuses, o \in ScriptOutcomes(dirs, entries, TestFolders) :
          /\ exits' = Append(exits, status)
          /\ dirs' = o.dirs
          /\ entries' = o.entries
          /\ IF CalledProcessError(status)
             THEN pc' = "returned" /\ prepResult' = "False" /\ launched' = launched
             ELSE /\ pc' = "train"
                  /\ prepResult' = prepResult
                  /\ launched' = Append(launched, "retrain_model.py")
    /\ UNCHANGED <<python_version, missing_packages, installAnswer,
                   depsResult, env, kaggle_json, files, marker, atStart,
                   credCall, credsResult, setupResult, prompts, stages,
                   exitCode>>

\* lines 172-180: retrain_model.py ends; it may have written the model file
RDP_train_exit ==
    /\ pc = "train"
    /\ \E status \in ExitStatuses, written \in BOOLEAN :
          /\ exits' = Append(exits, status)
          /\ marker' = (marker \/ written)
          /\ prepResult' = IF CalledProcessError(status) THEN "False" ELSE "True"
    /\ pc' = "returned"
    /\ UNCHANGED <<python_version, missing_packages, installAnswer,
                   depsResult, env, kaggle_json, dirs, files, entries,
                   atStart, credCall, credsResult, setupResult, launched,
                   prompts, stages, exitCode>>

\* check_kaggle_credentials called on its own; the call is recorded with the
\* environment and the file it found and the answers it read
Call_check_kaggle_credentials ==
    /\ pc = "check_kaggle_credentials_only"
    /\ credCall = <<>>
    /\ stages' = Append(stages, "check_kaggle_credentials")
    /\ \E a \in CredentialInputs :
          LET r == check_kaggle_credentials(env, kaggle_json, a)
          IN  /\ env' = r.env
              /\ kaggle_json' = r.file
              /\ credsResult' = r.result
              /\ credCall' = << [env |-> env, file |-> kaggle_json,
                                 answered |-> r.answered] >>
              /\ prompts' = prompts \o PromptsFor(r.answered)
    /\ UNCHANGED <<pc, python_version, missing_packages, installAnswer,
                   depsResult, dirs, files, entries, marker, atStart,
                   setupResult, prepResult, launched, exits, exitCode>>

\* setup_directories called on its own, any number of times up to MaxCalls
Call_setup_directories ==
    /\ pc = "setup_directories_only"
    /\ Len(stages) < MaxCalls
    /\ LET r == setup_directories(dirs, files)
       IN  /\ dirs' = r.dirs
           /\ setupResult' = IF r.raised THEN "raised" ELSE "True"
    /\ stages' = Append(stages, "setup_directories")
    /\ UNCHANGED <<pc, python_version, missing_packages, installAnswer,
                   depsResult, env, kaggle_json, files, entries, marker,
                   atStart, credCall, credsResult, prepResult, launched,
                   exits, prompts, exitCode>>

(***************************************************************************)
(* Initial states.                                                         *)
(***************************************************************************)
\* a directory's parent is a directory, and nothing is both
ConsistentFS(d, f) ==
    /\ d \cap f = {}
    /\ \A p \in d \cup f : Parent(p) = "" \/ Parent(p) \in d

\* entry counts that fit the directories: a missing folder holds nothing
EntriesFor(d) ==
    { n \in [ClassFolders -> {0} \cup UNION {Counts(p) : p \in ClassFolders}] :
        \A p \in ClassFolders :
            IF p \in d THEN n[p] \in {0} \cup Counts(p) ELSE n[p] = 0 }

\* the two Kaggle variables both unset, or both set to something
PlainEnvironments ==
    { << >>, [n \in {"KAGGLE_USERNAME", "KAGGLE_KEY"} |-> "alice"] }

\* the two Kaggle variables, each unset, empty or set
Environments ==
    UNION { [names -> {"", "alice"}] : names \in SUBSET {"KAGGLE_USERNAME", "KAGGLE_KEY"} }

\* the credential file: absent, or left by an earlier run or by the operator
CredentialFiles ==
    { <<>>, << [username |-> "carol", key |-> "k0", mode |-> DefaultMode] >> }

InitCommon ==
    /\ python_version = <<>>
    /\ missing_packages = <<>>
    /\ installAnswer = <<>>
    /\ atStart = <<>>
    /\ depsResult = "None"
    /\ credCall = <<>>
    /\ credsResult = "None"
    /\ setupResult = "None"
    /\ prepResult = "None"
    /\ launched = <<>>
    /\ exits = <<>>
    /\ prompts = <<>>
    /\ stages = <<>>
    /\ exitCode = <<>>

\* python setup.py: a fresh checkout, a complete layout, or a layout that a
\* regular file blocks
Init ==
    /\ InitCommon
    /\ pc = "main"
    /\ env \in PlainEnvironments
    /\ kaggle_json \in CredentialFiles
    /\ marker \in BOOLEAN
    /\ \E fs \in { [dirs |-> {}, files |-> {}],
                   [dirs |-> AllPaths, files |-> {}],
                   [dirs |-> {"model", "dataset"}, files |-> {"instance"}],
                   [dirs |-> {"model"}, files |-> {"static"}] } :
          dirs = fs.dirs /\ files = fs.files
    /\ entries \in { n \in EntriesFor(dirs) :
                        /\ n[positive_dir] = n[negative_dir]
                        /\ n[test_pos_dir] = n[test_neg_dir] }
    /\ (marker => "model" \in dirs)

Next ==
    \/ Main_check_python_version
    \/ Main_check_dependencies
    \/ Main_setup_directories
    \/ RDP_start
    \/ RDP_credentials
    \/ RDP_download_exit
    \/ RDP_test_samples
    \/ RDP_samples_exit
    \/ RDP_train_exit
    \/ Main_finish

Spec == Init /\ [][Next]_vars

\* run_data_preparation() called on any consistent state of the class folders
InitPrep ==
    /\ InitCommon
    /\ pc = "run_data_preparation"
    /\ env \in Environments
    /\ kaggle_json \in CredentialFiles
    /\ marker \in BOOLEAN
    /\ files = {}
    /\ dirs \in {(AllPaths \ ClassFolders) \cup g : g \in SUBSET ClassFolders}
    /\ entries \in EntriesFor(dirs)

NextPrep ==
    \/ RDP_start
    \/ RDP_credentials
    \/ RDP_download_exit
    \/ RDP_test_samples
    \/ RDP_samples_exit
    \/ RDP_train_exit

SpecPrep == InitPrep /\ [][NextPrep]_vars

\* setup_directories() called, and called again, on any consistent layout
\* with at most one regular file in the way
InitDirs ==
    /\ InitCommon
    /\ pc = "setup_directories_only"
    /\ env = << >>
    /\ kaggle_json = <<>>
    /\ marker = FALSE
    /\ dirs \in SUBSET AllPaths
    /\ files \in {{}} \cup {{p} : p \in AllPaths}
    /\ ConsistentFS(dirs, files)
    /\ \E full \in SUBSET (ClassFolders \cap dirs) :
          entries = [p \in ClassFolders |-> IF p \in full THEN Threshold(p) ELSE 0]

NextDirs == Call_setup_directories

SpecDirs == InitDirs /\ [][NextDirs]_vars

\* check_kaggle_credentials() called on any environment and credential file
InitCreds ==
    /\ InitCommon
    /\ pc = "check_kaggle_credentials_only"
    /\ env \in Environments
    /\ kaggle_json \in CredentialFiles
    /\ marker = FALSE
    /\ dirs = {}
    /\ files = {}
    /\ entries = [p \in ClassFolders |-> 0]

NextCreds == Call_check_kaggle_credentials

SpecCreds == InitCreds /\ [][NextCreds]_vars

(***************************************************************************)
(* Properties.                                                             *)
(***************************************************************************)
\* the number of times x occurs in the sequence q
Occurrences(q, x) == Cardinality({i \in 1 .. Len(q) : q[i] = x})

Range(q) == {q[i] : i \in 1 .. Len(q)}

IsPrefix(q, r) == Len(q) <= Len(r) /\ \A i \in 1 .. Len(q) : q[i] = r[i]

\* the three scripts of the cascade, in the order of the code
Scripts == << "prepare_kaggle_data.py", "prepare_test_samples.py", "retrain_model.py" >>

ScriptRank(x) == CHOOSE i \in 1 .. Len(Scripts) : Scripts[i] = x

\* C1: when the model file exists as run_data_preparation starts, then
\* whatever the class folders and the credentials are, the call launches no
\* process, asks nothing and returns True.
C1_MarkerSkipsCascade ==
    (atStart # <<>> /\ atStart[1].marker) =>
        /\ pc = "returned"
        /\ prepResult = "True"
        /\ launched = <<>>
        /\ exits = <<>>
        /\ prompts = <<>>
        /\ credsResult = "None"

\* the model file exists, the training folders are missing, no credentials
\* are to be found, and run_data_preparation has returned
C1_Witness ==
    /\ atStart # <<>> /\ atStart[1].marker
    /\ positive_dir \notin dirs
    /\ env = << >> /\ kaggle_json = <<>>
    /\ prepResult = "True"

\* C2: a version below 3.8 makes main fail with no later stage started (no
\* dependency check, no prompt, no credential check, no directory creation,
\* no process); every version from 3.8 on passes the version check.
C2_VersionGate ==
    python_version # <<>> =>
        IF python_version[1] < 3 \/ (python_version[1] = 3 /\ python_version[2] < 8)
        THEN /\ pc = "exited"
             /\ exitCode = <<1>>
             /\ stages = <<"check_python_version">>
             /\ depsResult = "None" /\ credsResult = "None"
             /\ setupResult = "None" /\ prepResult = "None"
             /\ launched = <<>> /\ prompts = <<>>
        ELSE pc = "check_dependencies" \/ Len(stages) >= 2

\* main has failed on Python 3.7
C2_Witness == python_version = <<3, 7>> /\ pc = "exited"

\* C3: when setup_directories returns, the twelve paths are directories,
\* whatever was there before; called on a layout that is complete it
\* returns True and changes neither the directories nor their contents.
C3_DirectoriesIdempotent ==
    [][ stages' # stages =>
          /\ (setupResult' = "True" => Directories \subseteq dirs')
          /\ (Directories \subseteq dirs =>
                 setupResult' = "True" /\ dirs' = dirs /\ entries' = entries)
          /\ dirs \subseteq dirs'
          /\ files' = files ]_vars

\* setup_directories has returned True twice, on populated class folders
C3_Witness ==
    /\ Len(stages) = 2
    /\ setupResult = "True"
    /\ Cardinality(Directories) = 12
    /\ Directories \subseteq dirs
    /\ entries[positive_dir] = MinTrainEntries

\* a training folder that held fewer than 10 entries at the start
C4_Below(p) == p \notin atStart[1].dirs \/ atStart[1].entries[p] < 10

\* C4: with the model file absent, prepare_kaggle_data.py is launched once
\* when a training folder holds fewer than 10 entries and the credential
\* check returns True, and never when both hold at least 10; when a folder
\* is below 10 and the credential check returns False, the call returns
\* False with no process launched.
C4_DownloadGate ==
    (atStart # <<>> /\ ~ atStart[1].marker) =>
        LET below == C4_Below(positive_dir) \/ C4_Below(negative_dir)
            n == Occurrences(launched, "prepare_kaggle_data.py")
        IN  /\ ~ below => n = 0 /\ credsResult = "None"
            /\ below => pc = "check_kaggle_credentials" \/ credsResult # "None"
            /\ (below /\ credsResult = "True") => n = 1
            /\ (below /\ credsResult = "False") =>
                  /\ launched = <<>> /\ exits = <<>>
                  /\ pc = "returned" /\ prepResult = "False"

\* the positive folder held 9 entries, the negative one 10, the credential
\* check passed and the download was launched
C4_Witness ==
    /\ atStart # <<>> /\ ~ atStart[1].marker
    /\ atStart[1].entries[positive_dir] = 9
    /\ atStart[1].entries[negative_dir] = 10
    /\ credsResult = "True"
    /\ launched = <<"prepare_kaggle_data.py">>

\* a regular file stands where a directory of the layout, or a parent of
\* one, has to be
C5_DirectoryCreationFails ==
    \E p \in Directories : ({p} \cup Ancestors(p)) \cap files # {}

\* C5: the exit status is 1 exactly when the version check fails or the
\* directory creation fails, and 0 otherwise: a False from the dependency
\* check or from the cascade never fails main, which goes on to its end.
C5_ExitCode ==
    /\ exitCode # <<>> =>
          /\ pc = "exited"
          /\ exitCode \in {<<0>>, <<1>>}
          /\ exitCode = <<1>> <=>
                \/ python_version[1] < 3
                \/ (python_version[1] = 3 /\ python_version[2] < 8)
                \/ C5_DirectoryCreationFails
          /\ exitCode = <<0>> =>
                prepResult \in {"True", "False"} /\ depsResult \in {"True", "False"}
    /\ pc = "returned" => ENABLED Main_finish

\* main has ended with status 0 although the dependency check and the
\* cascade both returned False
C5_Witness ==
    exitCode = <<0>> /\ depsResult = "False" /\ prepResult = "False"

\* the order of the stages as the specification's overview gives it
C6_ClaimedOrder ==
    << "check_python_version", "check_dependencies", "check_kaggle_credentials",
       "setup_directories", "run_data_preparation" >>

C6_ClaimedRank(x) == CHOOSE i \in 1 .. Len(C6_ClaimedOrder) : C6_ClaimedOrder[i] = x

\* C6 as stated: the stages run in the order version, dependencies,
\* credentials, directories, cascade, so a credential check is over before
\* the directory provisioning starts, and no stage is entered twice.
C6_AsStated ==
    \A i, j \in 1 .. Len(stages) :
        i < j => C6_ClaimedRank(stages[i]) < C6_ClaimedRank(stages[j])

\* the order of the calls in the code: the credential check is made inside
\* the cascade
C6_CodeOrder ==
    << "check_python_version", "check_dependencies", "setup_directories",
       "run_data_preparation", "check_kaggle_credentials" >>

\* C6 (amended): the stages run in the order version, dependencies,
\* directories, cascade, none skipped and none entered twice; the credential
\* check is made only inside the cascade, after the directory provisioning
\* has returned.
C6_StageOrder ==
    /\ IsPrefix(stages, C6_CodeOrder)
    /\ credsResult # "None" <=> "check_kaggle_credentials" \in Range(stages)
    /\ credsResult # "None" => setupResult = "True"
    /\ "prepare_kaggle_data.py" \in Range(launched) => credsResult = "True"

\* the credential check has been made in a run of main
C6_Witness ==
    /\ credsResult = "False"
    /\ stages = C6_CodeOrder
    /\ pc = "exited"

\* both variables are set and non-empty
C7_EnvironmentPair ==
    /\ DOMAIN env = {"KAGGLE_USERNAME", "KAGGLE_KEY"}
    /\ env["KAGGLE_USERNAME"] # "" /\ env["KAGGLE_KEY"] # ""

\* the operator has typed a username and a key in this call
C7_EnteredPair ==
    /\ Len(credCall[1].answered) = 4
    /\ credCall[1].answered[2] # "" /\ credCall[1].answered[3] # ""

\* C7: check_kaggle_credentials returns True exactly when, as it returns, a
\* username/key pair is available from the two environment variables (both
\* set and non-empty), from ~/.kaggle/kaggle.json or from what the operator
\* typed in this call, whatever the variables, the file and the answers are.
C7_ResultIffAvailable ==
    credCall # <<>> =>
        (credsResult = "True" <=>
            \/ C7_EnvironmentPair
            \/ kaggle_json # <<>>
            \/ C7_EnteredPair)

\* the operator answered y (or Y) to both questions of this call
C9_Persisting ==
    /\ Len(credCall[1].answered) = 4
    /\ credCall[1].answered[1] \in {"y", "Y"}
    /\ credCall[1].answered[4] \in {"y", "Y"}

\* C9: after a yes to setting up credentials and a yes to persisting them,
\* kaggle.json exists, holds the username and key typed, has mode 0600, and
\* the two environment variables hold the same pair; in every other case
\* (no yes to persisting, or credentials found in the environment or in the
\* file) the file is as it was.
C9_PersistFrame ==
    credCall # <<>> =>
        IF C9_Persisting
        THEN /\ kaggle_json = << [username |-> credCall[1].answered[2],
                                  key |-> credCall[1].answered[3],
                                  mode |-> 384] >>
             /\ DOMAIN env = {"KAGGLE_USERNAME", "KAGGLE_KEY"}
             /\ env["KAGGLE_USERNAME"] = credCall[1].answered[2]
             /\ env["KAGGLE_KEY"] = credCall[1].answered[3]
        ELSE kaggle_json = credCall[1].file

\* the file was absent and this call wrote bob's credentials into it
C9_Witness ==
    /\ credCall # <<>>
    /\ credCall[1].file = <<>>
    /\ kaggle_json # <<>>
    /\ kaggle_json[1].username = "bob" /\ kaggle_json[1].key = "k2"

\* the launch log and the exit log agree with the order and the error
\* handling of the cascade
C8_LaunchOrder ==
    /\ \A i, j \in 1 .. Len(launched) :
          i < j => ScriptRank(launched[i]) < ScriptRank(launched[j])
    /\ Len(exits) <= Len(launched) /\ Len(launched) <= Len(exits) + 1
    /\ \A i \in 1 .. Len(exits) :
          exits[i] # 0 =>
             /\ i = Len(launched)
             /\ pc = "returned" /\ prepResult = "False"
    /\ prepResult = "True" /\ ~ atStart[1].marker =>
          /\ launched # <<>> /\ launched[Len(launched)] = "retrain_model.py"
          /\ \A i \in 1 .. Len(exits) : exits[i] = 0
    /\ "retrain_model.py" \in Range(launched) =>
          /\ (C4_Below(positive_dir) \/ C4_Below(negative_dir)) =>
                launched[1] = "prepare_kaggle_data.py"
          /\ \A i \in 1 .. Len(launched) - 1 : exits[i] = 0

\* a step launches prepare_test_samples.py exactly when it is the test-sample
\* check and a test folder is below 5 in the state it reads
C8_SamplesGate ==
    /\ pc = "test_samples" =>
          ("prepare_test_samples.py" \in Range(launched') <=>
              \/ test_pos_dir \notin dirs \/ entries[test_pos_dir] < 5
              \/ test_neg_dir \notin dirs \/ entries[test_neg_dir] < 5)
    /\ pc # "test_samples" =>
          Occurrences(launched', "prepare_test_samples.py")
             = Occurrences(launched, "prepare_test_samples.py")

\* C8: the scripts are launched in the order download, sample preparation,
\* training, each at most once; a script that fails makes the call return
\* False with nothing launched after it, so training is launched only once
\* every script before it has exited with 0.  The sample preparation is
\* launched exactly when, as the download stage is over, a test folder holds
\* fewer than 5 entries.
C8_CascadeErrors == [] C8_LaunchOrder /\ [][C8_SamplesGate]_vars

\* the download succeeded, the sample preparation failed, and the call
\* returned False without launching the training
C8_Witness ==
    /\ pc = "returned"
    /\ launched = <<"prepare_kaggle_data.py", "prepare_test_samples.py">>
    /\ exits = <<0, 1>>
    /\ prepResult = "False"

\* C10: check_dependencies returns True when nothing is missing (and then
\* asks nothing) or when the operator accepts and the installer exits with
\* 0; it returns False when something is missing and the operator types
\* anything but y or Y, or the installer fails.  After a False, main goes on
\* to the directory provisioning.
C10_Dependencies ==
    depsResult # "None" =>
        /\ missing_packages = <<>> =>
              /\ depsResult = "True"
              /\ installAnswer = <<>>
              /\ "install" \notin Range(prompts)
              /\ "pip" \notin Range(launched)
        /\ missing_packages # <<>> =>
              /\ installAnswer # <<>>
              /\ prompts[1] = "install"
              /\ IF installAnswer[1] \in {"y", "Y"}
                 THEN /\ launched # <<>> /\ launched[1] = "pip"
                      /\ exits # <<>>
                      /\ depsResult = (IF exits[1] = 0 THEN "True" ELSE "False")
                 ELSE /\ "pip" \notin Range(launched)
                      /\ depsResult = "False"
        /\ depsResult = "False" =>
              \/ pc = "setup_directories"
              \/ (Len(stages) >= 3 /\ stages[3] = "setup_directories")

\* the operator typed "yes", which is not y: the check returned False and the
\* directories were provisioned all the same
C10_Witness ==
    /\ depsResult = "False"
    /\ installAnswer = <<"yes">>
    /\ missing_packages = <<"flask", "flask-login">>
    /\ setupResult = "True"

====
